---- MODULE Spec2Model ----
(***************************************************************************)
(* State-machine model of the FounderPortal React component                *)
(* (src/frontend/components/FounderPortal.tsx).                            *)
(*                                                                         *)
(* A JavaScript string is a sequence of one-character strings, so that     *)
(* trim(), template-literal concatenation and substring containment are    *)
(* computed rather than assumed.  A JavaScript object is a function from   *)
(* its own keys to values; a missing key reads as Undefined.               *)
(***************************************************************************)
EXTENDS Integers, Sequences, FiniteSets, TLC

\* Longest company name typed into the form (the other fields take their
\* values from the fixed input sets below).
MaxLen == 2

---------------------------------------------------------------------------
\* JavaScript values

\* `undefined`: a one-element sequence no character string can equal.
Undefined == <<"undefined">>

\* `null`
JSNull == [t |-> "null"]

\* An object with own properties f.
Obj(f) == [t |-> "obj", f |-> f]

\* Property read o.k / o?.k : Undefined when o is null or has no such key.
Get(o, k) ==
    IF o.t = "obj" /\ k \in DOMAIN o.f THEN o.f[k] ELSE Undefined

\* Truthiness of an object-or-null value (`if (x)`, `!x`, `x && ...`).
TruthyRef(o) == o.t = "obj"

\* Truthiness of a string-or-undefined value (`s || d`, `a && b`).
TruthyStr(s) == s # Undefined /\ s # <<>>

\* s || d on string-or-undefined values
OrElse(s, d) == IF TruthyStr(s) THEN s ELSE d

\* Characters String.prototype.trim removes (two representatives).
WhiteSpace == {" ", "\t"}

RECURSIVE TrimStart(_)
TrimStart(s) ==
    IF s # <<>> /\ Head(s) \in WhiteSpace THEN TrimStart(Tail(s)) ELSE s

RECURSIVE TrimEnd(_)
TrimEnd(s) ==
    IF s # <<>> /\ s[Len(s)] \in WhiteSpace
    THEN TrimEnd(SubSeq(s, 1, Len(s) - 1))
    ELSE s

\* String.prototype.trim
Trim(s) == TrimEnd(TrimStart(s))

---------------------------------------------------------------------------
\* Literals of the source

ProfileKey == "psyduck_founder_profile"

LocalFounder ==
    <<"l","o","c","a","l","-","f","o","u","n","d","e","r">>

OurCompany ==
    <<"o","u","r"," ","c","o","m","p","a","n","y">>

MailtoScheme ==
    <<"m","a","i","l","t","o",":">>

SubjectLiteral ==
    <<"?","s","u","b","j","e","c","t","=","C","o","l","l","a","b","o","r","a",
      "t","i","o","n","%","2","0","w","i","t","h","%","2","0">>

BodyLiteral ==
    <<"&","b","o","d","y","=","H","i","%","2","0">>

GreetingLiteral ==
    <<",","%","0","D","%","0","A","%","0","D","%","0","A","I","%","2","0",
      "w","o","u","l","d","%","2","0","l","o","v","e","%","2","0","t","o",
      "%","2","0","c","o","n","n","e","c","t","%","2","0","r","e","g","a",
      "r","d","i","n","g","%","2","0","o","p","p","o","r","t","u","n","i",
      "t","i","e","s","%","2","0","a","t","%","2","0">>

HiringLiteral ==
    <<"H","i","r","i","n","g"," ","r","e","q","u","e","s","t"," ","s","e",
      "n","t"," ","f","o","r"," ">>

\* const mock: StudentCandidate[]
mock ==
    << [ id |-> "u1",
         name |-> <<"A","a","r","a","v"," ","S","h","a","r","m","a">>,
         role |-> "Frontend Developer",
         skills |-> <<"React", "TypeScript", "Tailwind">>,
         progressPercentage |-> 78,
         projectsCompleted |-> 5,
         lastActive |-> "2h ago",
         contactEmail |-> <<"a","a","r","a","v","@","e","x","a","m","p","l",
                            "e",".","c","o","m">> ],
       [ id |-> "u2",
         name |-> <<"Z","o","y","a"," ","K","h","a","n">>,
         role |-> "Fullstack Developer",
         skills |-> <<"Node.js", "PostgreSQL", "React">>,
         progressPercentage |-> 91,
         projectsCompleted |-> 8,
         lastActive |-> "1d ago",
         contactEmail |-> <<"z","o","y","a","@","e","x","a","m","p","l","e",
                            ".","c","o","m">> ],
       [ id |-> "u3",
         name |-> <<"K","a","b","i","r"," ","P","a","t","e","l">>,
         role |-> "Data Engineer",
         skills |-> <<"Python", "Airflow", "SQL">>,
         progressPercentage |-> 64,
         projectsCompleted |-> 3,
         lastActive |-> "5h ago",
         contactEmail |-> <<"k","a","b","i","r","@","e","x","a","m","p","l",
                            "e",".","c","o","m">> ] >>

---------------------------------------------------------------------------
\* The local key-value store and JSON

\* A stored text is a sequence of tokens [k, v]: "{" and "}" delimit an
\* object, a token with any other k is the member  k: v , and the single
\* token "null" is the JSON literal null.
Tok(k, v) == [k |-> k, v |-> v]

LBrace == Tok("{", <<>>)

RBrace == Tok("}", <<>>)

NullText == << Tok("null", <<>>) >>

\* localStorage.getItem result: nothing stored, or the stored text.
Absent == [present |-> FALSE, text |-> <<>>]

Stored(text) == [present |-> TRUE, text |-> text]

\* Truthiness of getItem's result: null and "" are falsy.
TruthySaved(s) == s.present /\ s.text # <<>>

ProfileKeys == <<"id", "name", "company", "email", "website">>

RECURSIVE Members(_, _)
Members(o, keys) ==
    IF keys = <<>> THEN <<>>
    ELSE IF Head(keys) \in DOMAIN o.f /\ o.f[Head(keys)] # Undefined
         THEN <<Tok(Head(keys), o.f[Head(keys)])>> \o Members(o, Tail(keys))
         ELSE Members(o, Tail(keys))

\* JSON.stringify of an object: members in insertion order, a member whose
\* value is undefined left out.
JSONstringify(o) == <<LBrace>> \o Members(o, ProfileKeys) \o <<RBrace>>

\* Whether JSON.parse accepts the text (otherwise it throws SyntaxError).
IsObjectText(text) ==
    /\ Len(text) >= 2
    /\ text[1] = LBrace
    /\ text[Len(text)] = RBrace
    /\ \A i \in 2..(Len(text) - 1) : text[i].k \notin {"{", "}", "null"}

Parsable(text) == text = NullText \/ IsObjectText(text)

\* JSON.parse of a text it accepts.
JSONparse(text) ==
    IF text = NullText THEN JSNull
    ELSE LET inner == SubSeq(text, 2, Len(text) - 1)
             keys == {inner[i].k : i \in 1..Len(inner)}
             \* a repeated key keeps its last value
             last(k) == CHOOSE i \in 1..Len(inner) :
                          /\ inner[i].k = k
                          /\ \A j \in (i + 1)..Len(inner) : inner[j].k # k
         IN Obj([k \in keys |-> inner[last(k)].v])

---------------------------------------------------------------------------
\* Inputs

Rohan == <<"R","o","h","a","n">>

RohanMail == <<"r","@","a","c","m","e",".","c","o","m">>

Acme == <<"A","c","m","e">>

AcmeSite ==
    <<"h","t","t","p","s",":","/","/","a","c","m","e",".","c","o","m">>

\* All strings over alphabet A of length at most n.
Strs(A, n) == UNION {[1..k -> A] : k \in 0..n}

\* Values typed or pasted into the four inputs (e.target.value).
NameInputs == {<<>>, <<" ">>, Rohan, <<" ">> \o Rohan \o <<"\t">>}

EmailInputs == {<<>>, <<"\t", " ">>, RohanMail, <<" ">> \o RohanMail}

WebsiteInputs == {<<>>, <<" ", " ">>, AcmeSite, <<" ">> \o AcmeSite \o <<" ">>}

CompanyChars == {" ", "A", "&"}

CompanyInputs == Strs(CompanyChars, MaxLen) \cup {Acme}

\* useAuth().user : nobody signed in, or a user with an id.
Users == {JSNull, Obj([id |-> <<"u","4","2">>])}

\* What localStorage may hold under ProfileKey when the component mounts:
\* nothing, the empty string, a text JSON.parse rejects, the JSON literal
\* null, an empty object, and serialized profiles.
InitialStores ==
    { Absent,
      Stored(<<>>),
      Stored(<<LBrace, Tok("id", LocalFounder)>>),
      Stored(NullText),
      Stored(<<LBrace, RBrace>>),
      Stored(JSONstringify(Obj([id |-> LocalFounder, name |-> Rohan,
                               company |-> Acme, email |-> RohanMail,
                               website |-> AcmeSite]))),
      Stored(JSONstringify(Obj([id |-> LocalFounder, name |-> Rohan,
                               company |-> <<>>, email |-> RohanMail,
                               website |-> Undefined]))) }

---------------------------------------------------------------------------
\* State

VARIABLES
    phase,         \* "init": rendered, mount effect pending; "mounted";
                   \* "crashed": the mount effect threw
    founder,       \* useState<FounderProfile | null>
    form,          \* useState({name, company, email, website})
    students,      \* useState<StudentCandidate[]>
    isSubmitting,  \* useState(false)
    store,         \* localStorage entry under ProfileKey
    user,          \* useAuth().user
    href,          \* window.location.href once a mailto link was assigned
    alertMsg,      \* text of the last alert()
    pc,            \* position inside handleSignup: "idle", "try", "finally"
    lastOp,        \* history: the last handler step taken and its candidate
    store0,        \* history: what the store held before mount
    writes         \* history: completed localStorage.setItem calls

vars ==
    <<phase, founder, form, students, isSubmitting, store, user, href,
      alertMsg, pc, lastOp, store0, writes>>

Op(op, who) == [op |-> op, who |-> who]

Init ==
    /\ phase = "init"
    /\ founder = JSNull
    /\ form = [name |-> <<>>, company |-> <<>>, email |-> <<>>,
               website |-> <<>>]
    /\ students = <<>>
    /\ isSubmitting = FALSE
    /\ store \in InitialStores
    /\ user \in Users
    /\ href = <<>>
    /\ alertMsg = <<>>
    /\ pc = "idle"
    /\ lastOp = Op("none", 0)
    /\ store0 = store
    /\ writes = 0

\* Which card the component shows: the conditional of the JSX on founder.
\* An error thrown by the mount effect is not caught anywhere in the
\* component, so React removes the component and neither card is shown.
View ==
    IF phase = "crashed" THEN "none"
    ELSE IF ~TruthyRef(founder) THEN "form"
    ELSE "list"

\* No handler is running and the component is on screen.
Ready == phase = "mounted" /\ pc = "idle"

---------------------------------------------------------------------------
\* useEffect(() => {...}, [])

Mount ==
    /\ phase = "init"
    /\ lastOp' = Op("mount", 0)
    /\ IF TruthySaved(store) /\ ~Parsable(store.text)
       THEN \* JSON.parse throws: the rest of the effect does not run
            /\ phase' = "crashed"
            /\ UNCHANGED <<founder, students>>
       ELSE /\ founder' = IF TruthySaved(store) THEN JSONparse(store.text)
                          ELSE founder
            /\ students' = mock
            /\ phase' = "mounted"
    /\ UNCHANGED <<form, isSubmitting, store, user, href, alertMsg, pc,
                   store0, writes>>

---------------------------------------------------------------------------
\* The inputs' onChange handlers: setForm({ ...form, field: e.target.value })

SetField(field, v) ==
    /\ Ready
    /\ View = "form"
    /\ v # form[field]
    /\ form' = [form EXCEPT ![field] = v]
    /\ lastOp' = Op("edit", 0)
    /\ UNCHANGED <<phase, founder, students, isSubmitting, store, user, href,
                   alertMsg, pc, store0, writes>>

ChangeName == \E v \in NameInputs : SetField("name", v)

ChangeCompany == \E v \in CompanyInputs : SetField("company", v)

ChangeEmail == \E v \in EmailInputs : SetField("email", v)

ChangeWebsite == \E v \in WebsiteInputs : SetField("website", v)

---------------------------------------------------------------------------
\* handleSignup

\* Variant of canSubmit that tests the raw field values, without trim().
canSubmit_NoTrim(f) ==
    IF ~TruthyStr(f.name) THEN f.name
    ELSE IF ~TruthyStr(f.company) THEN f.company
    ELSE f.email

\* useMemo: form.name.trim() && form.company.trim() && form.email.trim()
canSubmit(f) ==
    IF ~TruthyStr(Trim(f.name)) THEN Trim(f.name)
    ELSE IF ~TruthyStr(Trim(f.company)) THEN Trim(f.company)
    ELSE Trim(f.email)

\* Variant of BuildProfile that keeps a blank website as the empty string.
BuildProfile_BlankWebsite(u, f) ==
    Obj([ id |-> OrElse(Get(u, "id"), LocalFounder),
          name |-> Trim(f.name),
          company |-> Trim(f.company),
          email |-> Trim(f.email),
          website |-> Trim(f.website) ])

\* const profile: FounderProfile = {...}
BuildProfile(u, f) ==
    Obj([ id |-> OrElse(Get(u, "id"), LocalFounder),
          name |-> Trim(f.name),
          company |-> Trim(f.company),
          email |-> Trim(f.email),
          website |-> OrElse(Trim(f.website), Undefined) ])

\* Variant of SignupEnter with the form rendered in both views.
SignupEnter_AnyView ==
    /\ Ready
    /\ IF ~TruthyStr(canSubmit(form))
       THEN /\ lastOp' = Op("submitRejected", 0)
            /\ UNCHANGED <<isSubmitting, pc>>
       ELSE /\ isSubmitting' = TRUE
            /\ pc' = "try"
            /\ lastOp' = Op("submitEntered", 0)
    /\ UNCHANGED <<phase, founder, form, students, store, user, href,
                   alertMsg, store0, writes>>

\* e.preventDefault(); if (!canSubmit) return; setIsSubmitting(true);
SignupEnter ==
    /\ Ready
    /\ View = "form"
    /\ IF ~TruthyStr(canSubmit(form))
       THEN /\ lastOp' = Op("submitRejected", 0)
            /\ UNCHANGED <<isSubmitting, pc>>
       ELSE /\ isSubmitting' = TRUE
            /\ pc' = "try"
            /\ lastOp' = Op("submitEntered", 0)
    /\ UNCHANGED <<phase, founder, form, students, store, user, href,
                   alertMsg, store0, writes>>

\* The try block, when localStorage.setItem returns.
SignupWrite ==
    /\ pc = "try"
    /\ store' = Stored(JSONstringify(BuildProfile(user, form)))
    /\ writes' = writes + 1
    /\ founder' = BuildProfile(user, form)
    /\ pc' = "finally"
    /\ lastOp' = Op("written", 0)
    /\ UNCHANGED <<phase, form, students, isSubmitting, user, href,
                   alertMsg, store0>>

\* Variant of SignupWriteThrows without the finally block: the exception
\* leaves the handler at once.
SignupWriteThrows_NoFinally ==
    /\ pc = "try"
    /\ pc' = "idle"
    /\ lastOp' = Op("submitFailed", 0)
    /\ UNCHANGED <<phase, founder, form, students, isSubmitting, store, user,
                   href, alertMsg, store0, writes>>

\* The try block, when localStorage.setItem throws (quota exceeded, storage
\* disabled): nothing is stored and setFounder is not reached.
SignupWriteThrows ==
    /\ pc = "try"
    /\ pc' = "finally"
    /\ lastOp' = Op("writeThrew", 0)
    /\ UNCHANGED <<phase, founder, form, students, isSubmitting, store, user,
                   href, alertMsg, store0, writes>>

\* finally { setIsSubmitting(false); }
SignupFinally ==
    /\ pc = "finally"
    /\ isSubmitting' = FALSE
    /\ pc' = "idle"
    /\ lastOp' = IF lastOp.op = "written" THEN Op("submitOk", 0)
                 ELSE Op("submitFailed", 0)
    /\ UNCHANGED <<phase, founder, form, students, store, user, href,
                   alertMsg, store0, writes>>

---------------------------------------------------------------------------
\* handleContact and handleHire

\* Variant of MailtoLink without the  || 'our company'  fallback.
MailtoLink_NoFallback(student, f) ==
    MailtoScheme \o student.contactEmail
      \o SubjectLiteral \o student.name
      \o BodyLiteral \o student.name
      \o GreetingLiteral \o Get(f, "company")
      \o <<".">>

\* The template literal assigned to window.location.href.
MailtoLink(student, f) ==
    MailtoScheme \o student.contactEmail
      \o SubjectLiteral \o student.name
      \o BodyLiteral \o student.name
      \o GreetingLiteral \o OrElse(Get(f, "company"), OurCompany)
      \o <<".">>

handleContact(i) ==
    /\ Ready
    /\ View = "list"
    /\ i \in 1..Len(students)
    /\ href' = MailtoLink(students[i], founder)
    /\ lastOp' = Op("contact", i)
    /\ UNCHANGED <<phase, founder, form, students, isSubmitting, store, user,
                   alertMsg, pc, store0, writes>>

\* Variant of handleHire that also takes the hired candidate off the list.
handleHire_Removes(i) ==
    /\ Ready
    /\ View = "list"
    /\ i \in 1..Len(students)
    /\ alertMsg' = HiringLiteral \o students[i].name
    /\ students' = SubSeq(students, 1, i - 1)
                     \o SubSeq(students, i + 1, Len(students))
    /\ lastOp' = Op("hire", i)
    /\ UNCHANGED <<phase, founder, form, isSubmitting, store, user, href, pc,
                   store0, writes>>

handleHire(i) ==
    /\ Ready
    /\ View = "list"
    /\ i \in 1..Len(students)
    /\ alertMsg' = HiringLiteral \o students[i].name
    /\ lastOp' = Op("hire", i)
    /\ UNCHANGED <<phase, founder, form, students, isSubmitting, store, user,
                   href, pc, store0, writes>>

Contact == \E i \in 1..3 : handleContact(i)

Hire == \E i \in 1..3 : handleHire(i)

---------------------------------------------------------------------------

Next ==
    \/ Mount
    \/ ChangeName
    \/ ChangeCompany
    \/ ChangeEmail
    \/ ChangeWebsite
    \/ SignupEnter
    \/ SignupWrite
    \/ SignupWriteThrows
    \/ SignupFinally
    \/ Contact
    \/ Hire

Spec == Init /\ [][Next]_vars

---------------------------------------------------------------------------
\* Vocabulary of the properties, stated on characters and not through the
\* operators of the model.

\* s has a character that is not whitespace.
NonBlank(s) == \E i \in 1..Len(s) : s[i] \notin WhiteSpace

\* name, company and email are each non-empty after trimming.
RequiredFilled(f) ==
    NonBlank(f.name) /\ NonBlank(f.company) /\ NonBlank(f.email)

\* t is s without its leading and trailing whitespace.
IsTrimOf(t, s) ==
    \E a, b \in 0..Len(s) :
        /\ a + b <= Len(s)
        /\ t = SubSeq(s, a + 1, Len(s) - b)
        /\ \A i \in 1..a : s[i] \in WhiteSpace
        /\ \A i \in (Len(s) - b + 1)..Len(s) : s[i] \in WhiteSpace
        /\ t # <<>> => (t[1] \notin WhiteSpace /\ t[Len(t)] \notin WhiteSpace)

\* n occurs in s at position i.
OccursAt(n, s, i) ==
    /\ i >= 1
    /\ i + Len(n) - 1 <= Len(s)
    /\ SubSeq(s, i, i + Len(n) - 1) = n

Contains(s, n) == \E i \in 1..(Len(s) + 1) : OccursAt(n, s, i)

\* Position of the first occurrence of n in s, 0 when there is none.
FirstAt(n, s) ==
    IF Contains(s, n)
    THEN CHOOSE i \in 1..(Len(s) + 1) :
           OccursAt(n, s, i) /\ \A j \in 1..(i - 1) : ~OccursAt(n, s, j)
    ELSE 0

SubjectKey == <<"s","u","b","j","e","c","t","=">>

BodyKey == <<"&","b","o","d","y","=">>

\* The value of the subject parameter of a mailto link: from "subject=" up
\* to the "&body=" separator.
SubjectOf(link) ==
    SubSeq(link, FirstAt(<<"?">>, link) + 1 + Len(SubjectKey),
           FirstAt(BodyKey, link) - 1)

\* The value of the body parameter: what follows "&body=".
BodyOf(link) == SubSeq(link, FirstAt(BodyKey, link) + Len(BodyKey), Len(link))

\* The mount effect read a profile out of the store.
ProfileLoaded ==
    /\ store0.present
    /\ store0.text # <<>>
    /\ store0.text[1] = LBrace
    /\ store0.text[Len(store0.text)] = RBrace

\* A submit wrote a profile.
ProfileCreated == writes > 0

\* The stored text is neither absent, empty nor something JSON can read.
Unparsable(s) ==
    /\ s.present
    /\ s.text # <<>>
    /\ s.text # NullText
    /\ ~(s.text[1] = LBrace /\ s.text[Len(s.text)] = RBrace)

\* The three literal candidates, by id and name, in order.
ThreeCandidates(l) ==
    /\ Len(l) = 3
    /\ <<l[1].id, l[2].id, l[3].id>> = <<"u1", "u2", "u3">>
    /\ l[1].name = <<"A","a","r","a","v"," ","S","h","a","r","m","a">>
    /\ l[2].name = <<"Z","o","y","a"," ","K","h","a","n">>
    /\ l[3].name = <<"K","a","b","i","r"," ","P","a","t","e","l">>
    /\ l = mock

---------------------------------------------------------------------------
\* C1: in every state after the mount effect, the candidate list is shown
\* exactly when a profile was loaded at mount or created by a submit, and the
\* form is shown in every other state.
C1_ViewGate ==
    phase # "init" =>
        /\ (View = "list") <=> (ProfileLoaded \/ ProfileCreated)
        /\ ~(ProfileLoaded \/ ProfileCreated) => View = "form"

---------------------------------------------------------------------------
---------------------------------------------------------------------------
\* C3: after a successful submit the stored record is exactly id (the
\* user's id, else 'local-founder'), name, company, email (trimmed) and,
\* only when the website input is non-blank, website (trimmed); the founder
\* in memory has the same fields and the candidate list is shown.
C3_PersistedRecord ==
    lastOp.op \in {"written", "submitOk"} =>
        LET t == store.text
            m == SubSeq(t, 2, Len(t) - 1)
            keys == [i \in 1..Len(m) |-> m[i].k]
        IN /\ store.present
           /\ t[1] = LBrace /\ t[Len(t)] = RBrace
           /\ keys = IF NonBlank(form.website)
                     THEN <<"id", "name", "company", "email", "website">>
                     ELSE <<"id", "name", "company", "email">>
           /\ m[1].v = IF user.t = "obj" THEN user.f.id ELSE LocalFounder
           /\ IsTrimOf(m[2].v, form.name)
           /\ IsTrimOf(m[3].v, form.company)
           /\ IsTrimOf(m[4].v, form.email)
           /\ NonBlank(form.website) => IsTrimOf(m[5].v, form.website)
           /\ \A i \in 1..Len(m) : Get(founder, m[i].k) = m[i].v
           /\ ~NonBlank(form.website) => Get(founder, "website") = Undefined
           /\ View = "list"

C3_Witness ==
    /\ lastOp.op = "submitOk"
    /\ user = JSNull
    /\ form.name = <<" ">> \o Rohan \o <<"\t">>
    /\ form.company = <<" ", "A">>
    /\ form.website = <<" ", " ">>
    /\ Len(store.text) = 6

---------------------------------------------------------------------------
\* C4: once a founder profile is present no step changes it, the view stays
\* the candidate list, and the store is not written again; the store is
\* written at most once.
C4_OneWay ==
    /\ [](writes <= 1)
    /\ [][TruthyRef(founder) =>
            /\ founder' = founder
            /\ store' = store
            /\ writes' = writes
            /\ View' = "list"]_vars
    /\ [][store' # store => (writes = 0 /\ writes' = 1)]_vars

C4_Witness ==
    /\ writes = 1
    /\ lastOp.op = "hire"
    /\ href # <<>>
    /\ View = "list"

---------------------------------------------------------------------------
\* C5: whatever the store held before mount, once the mount effect has run
\* the candidate list is the three literal entries in order, and stays so.
C5_ListFixed == phase # "init" => ThreeCandidates(students)

---------------------------------------------------------------------------
\* C6: Contact assigns a link that starts with mailto: and the candidate's
\* email, whose subject contains the candidate's name and whose body
\* contains the name and the founder's company, or 'our company' when the
\* company is unset or empty; nothing else of the founder enters the link.
C6_MailtoLink ==
    lastOp.op = "contact" =>
        LET s == students[lastOp.who]
            c == Get(founder, "company")
            company == IF c = Undefined \/ c = <<>> THEN OurCompany ELSE c
        IN /\ OccursAt(MailtoScheme \o s.contactEmail \o <<"?">> \o SubjectKey,
                       href, 1)
           /\ Contains(SubjectOf(href), s.name)
           /\ Contains(BodyOf(href), s.name)
           /\ Contains(BodyOf(href), company)
           /\ href = MailtoLink(s, Obj([company |-> c]))

C6_Witness ==
    /\ lastOp = Op("contact", 2)
    /\ Get(founder, "company") = Acme
    /\ writes = 1

---------------------------------------------------------------------------
\* C7: a Hire step changes nothing but the alert.
C7_HireFrame ==
    [][lastOp'.op = "hire" =>
         /\ UNCHANGED <<phase, founder, form, students, isSubmitting, store,
                        href, pc, writes>>
         /\ alertMsg' = HiringLiteral \o students[lastOp'.who].name]_vars

C7_Witness ==
    /\ lastOp = Op("hire", 3)
    /\ alertMsg = HiringLiteral \o <<"K","a","b","i","r"," ","P","a","t","e","l">>
    /\ writes = 1

---------------------------------------------------------------------------
\* C8: the submitting flag is set only while handleSignup runs: it is still
\* set when the write has returned or thrown and it is clear whenever no
\* handler is running; after a write that threw, the founder is unset and
\* the form is shown.
C8_FlagCleared ==
    /\ pc = "idle" => ~isSubmitting
    /\ pc \in {"try", "finally"} => isSubmitting
    /\ lastOp.op = "submitFailed" =>
         /\ ~TruthyRef(founder)
         /\ View = "form"
         /\ store = store0

C8_Witness ==
    /\ lastOp.op = "submitFailed"
    /\ RequiredFilled(form)
    /\ pc = "idle"

---------------------------------------------------------------------------
\* C9: when the stored value is absent or is not parsable, the mount effect
\* completes without an error and leaves no profile, the three candidates
\* and the form view.
C9_ParseFailureSwallowed ==
    (phase # "init" /\ (~store0.present \/ Unparsable(store0))) =>
        /\ phase = "mounted"
        /\ ThreeCandidates(students)
        /\ ~TruthyRef(founder)
        /\ View = "form"

---------------------------------------------------------------------------
\* C10: the subject and the body of the link Contact assigns hold no raw
\* space and no raw reserved character.
C10_Encoded ==
    lastOp.op = "contact" =>
        \A v \in {SubjectOf(href), BodyOf(href)} :
            /\ \A i \in 1..Len(v) : v[i] \notin {" ", "&", "?", "#"}
            /\ \A i \in 1..Len(v) :
                 v[i] = "%" =>
                    /\ i + 2 <= Len(v)
                    /\ v[i + 1] \in {"0", "2"}
                    /\ v[i + 2] \in {"0", "A", "D"}

====
